---- MODULE Spec2Model ----
(***************************************************************************)
(* A model of PyDSM's NTF design routines:                                 *)
(*   - pydsm/NTFdesign/weighting/_fir_weighting.py  (option handling,      *)
(*     weighting products, q0 construction, convex synthesizers and the    *)
(*     deprecated aliases),                                                *)
(*   - pydsm/NTFdesign/filter_based/_q0_from_filter.py,                    *)
(*   - pydsm/ft.py (idtft_hermitian),                                      *)
(*   - pydsm/delsig/_synthesizeNTF1.py (the iterative synthesizer).        *)
(*                                                                         *)
(* Two specifications share the module.  Spec drives the option/weighting  *)
(* API: every public function is one action, a call, whose effect on the   *)
(* default_options dictionaries and whose trace of events and outcome are  *)
(* computed by operators translated from the code.  SpecNTF1 steps through *)
(* synthesizeNTF1's two nested loops.                                      *)
(*                                                                         *)
(* Numbers.  Weighting values are exact rationals <<num, den>> sampled at  *)
(* the two frequencies f = 0 and f = 1/2, where e^{2 pi i f} is 1 and -1.  *)
(* The values of integrator and solver settings are small integers, 0      *)
(* standing for the documented default.                                    *)
(***************************************************************************)
EXTENDS Integers, Sequences, FiniteSets, TLC

VARIABLES
    heap,             \* the dictionary objects: object id -> dictionary
    default_options,  \* function name -> id of its default_options dictionary
    eager_map,        \* TRUE: map() is eager (Python 2); FALSE: lazy (Python 3)
    nchanges,         \* how many times the caller has edited a default
    last,             \* the record of the most recent API call
    syn               \* the frame of the running synthesizeNTF1 call

vars == <<heap, default_options, eager_map, nchanges, last, syn>>

-----------------------------------------------------------------------------
(* Bounds of the model *)

MaxP == 2
MaxChanges == 1
MaxOrder == 3

-----------------------------------------------------------------------------
(* Dictionaries are functions from key strings to values.  A nested        *)
(* dictionary held by a default template is a reference to a heap object   *)
(* (Python's copy() is shallow); one supplied by a caller is a literal.    *)

EmptyDict == [k \in {} |-> 0]

Ref(id) == [ref |-> id]

Lit(d) == [lit |-> d]

Deref(h, v) == IF "ref" \in DOMAIN v THEN h[v.ref] ELSE v.lit

DictUpdate(d, o) ==
    [k \in (DOMAIN d) \cup (DOMAIN o) |-> IF k \in DOMAIN o THEN o[k] ELSE d[k]]

QuadKeys == {"epsabs", "epsrel", "limit", "points"}

CvxKeys == {"maxiters", "abstol", "reltol", "feastol"}

SynthKeys == {"cvxopt_opts", "show_progress", "fix_pos"}

WeightingKeys == {"quad_opts", "cvxopt_opts", "show_progress", "fix_pos"}

Functions ==
    {"q0_weighting", "ntf_hybrid_from_q0", "ntf_fir_from_q0",
     "ntf_hybrid_weighting", "ntf_fir_weighting"}

Aliases ==
    {"q0_from_noise_weighting", "synthesize_ntf_from_q0",
     "synthesize_ntf_from_noise_weighting"}

Implementation(alias) ==
    CASE alias = "q0_from_noise_weighting" -> "q0_weighting"
      [] alias = "synthesize_ntf_from_q0" -> "ntf_fir_from_q0"
      [] alias = "synthesize_ntf_from_noise_weighting" -> "ntf_fir_weighting"

(* The module-level assignments of the default_options attributes. *)
InitHeap ==
    LET quad == [k \in QuadKeys |-> 0]
        cvx == [k \in CvxKeys |-> 0]
        q0w == [quad_opts |-> Ref("quad")]
        hq0 == [cvxopt_opts |-> Ref("cvx_h"), show_progress |-> TRUE, fix_pos |-> TRUE]
        fq0 == [cvxopt_opts |-> Ref("cvx_f"), show_progress |-> TRUE, fix_pos |-> TRUE]
    IN  [quad |-> quad, cvx_h |-> cvx, cvx_f |-> cvx,
         q0w |-> q0w, hq0 |-> hq0, fq0 |-> fq0,
         hw |-> DictUpdate(q0w, hq0),
         fw |-> DictUpdate(q0w, fq0)]

InitDefaultOptions ==
    [q0_weighting |-> "q0w",
     ntf_hybrid_from_q0 |-> "hq0",
     ntf_fir_from_q0 |-> "fq0",
     ntf_hybrid_weighting |-> "hw",
     ntf_fir_weighting |-> "fw",
     q0_from_noise_weighting |-> "q0w",
     synthesize_ntf_from_q0 |-> "fq0",
     synthesize_ntf_from_noise_weighting |-> "fw"]

-----------------------------------------------------------------------------
(* Rationals and transfer-function evaluation *)

Freqs == {0, 1}

ZAt(f) == IF f = 0 THEN 1 ELSE -1

RECURSIVE GCD(_, _)
GCD(m, n) == IF n = 0 THEN m ELSE GCD(n, m % n)

(* A rational in lowest terms, the denominator positive *)
Lowest(a) ==
    LET g == GCD(IF a[1] < 0 THEN -a[1] ELSE a[1], a[2])
    IN  <<a[1] \div g, a[2] \div g>>

RMul(a, b) == Lowest(<<a[1] * b[1], a[2] * b[2]>>)

REq(a, b) == a[1] * b[2] = b[1] * a[2]

RSquare(a) == RMul(a, a)

RECURSIVE polyval(_, _)
polyval(c, z) ==
    IF Len(c) = 0 THEN 0 ELSE polyval(SubSeq(c, 1, Len(c) - 1), z) * z + c[Len(c)]

(* prod_i (z - r_i) for rational roots r_i = <<n, d>> *)
RECURSIVE evalRPoly(_, _)
evalRPoly(roots, z) ==
    IF Len(roots) = 0 THEN <<1, 1>>
    ELSE RMul(<<z * roots[1][2] - roots[1][1], roots[1][2]>>,
              evalRPoly(Tail(roots), z))

(* |evalTF(h, e^{2 pi i f})|^2 for a ba pair or a zpk triple *)
Mag2(h, f) ==
    IF h.len = 2
    THEN RSquare(<<polyval(h.b, ZAt(f)), polyval(h.a, ZAt(f))>>)
    ELSE LET nz == evalRPoly(h.z, ZAt(f))
             np == evalRPoly(h.p, ZAt(f))
         IN  RSquare(<<h.k * nz[1] * np[2], nz[2] * np[1]>>)

Callable(vals) == [tag |-> "fn", val |-> vals]

BaFilter(b, a) == [tag |-> "tuple", len |-> 2, b |-> b, a |-> a]

ZpkFilter(z, p, k) == [tag |-> "tuple", len |-> 3, z |-> z, p |-> p, k |-> k]

IsFilter(w) == w.tag = "tuple" /\ 2 <= w.len /\ w.len <= 3

(* lambda f: np.abs(evalTF(h, np.exp(2j*np.pi*f)))**2 *)
FilterWeighting(h) == Callable([f \in Freqs |-> Mag2(h, f)])

-----------------------------------------------------------------------------
(* The outcome of a call: the heap it leaves, the events it performed in   *)
(* order, how it ended, what it returned and the settings it ran with.     *)

NoValue == [kind |-> "none"]

Res(h, ev, out, val, used) ==
    [heap |-> h, events |-> ev, outcome |-> out, value |-> val, used |-> used]

Raise(h, ev, exc, used) == Res(h, ev, exc, NoValue, used)

(* opts = f.default_options.copy(); opts.update(options) *)
MergeOptsInPlace(h, d, options) ==
    [heap |-> [h EXCEPT ![d] = DictUpdate(h[d], options)],
     opts |-> DictUpdate(h[d], options)]

MergeOpts(h, d, options) ==
    [heap |-> h, opts |-> DictUpdate(h[d], options)]

(* utilities.check_options: unrecognized keys are a configuration error *)
check_options(opts, allowed) == (DOMAIN opts) \subseteq allowed

-----------------------------------------------------------------------------
(* pydsm/delsig/_synthesizeNTF1.py                                         *)
(*                                                                         *)
(* Reals are fixed-point integers in thousandths: x, delta_x, H_inf and    *)
(* f = gain - H_inf.  f0 is counted in eighths, so that f0 > 0.25 reads    *)
(* f0 > 2.                                                                 *)

Milli == 10 * 10 * 10

Hinf_itn_limit == 100

MaxOptIterations == 5

XDivergence == 1000000 * Milli

(* 1e-10 on the grid: the narrowest window about 0 that holds other        *)
(* values than 0, as the floating-point one does.                          *)
ftol == 2

Abs(v) == IF v < 0 THEN -v ELSE v

(* a/b where b divides a *)
Divides(b, a) == b # 0 /\ a % Abs(b) = 0

Quotient(a, b) == IF b < 0 THEN (-a) \div (-b) ELSE a \div b

RECURSIVE Pow2(_)
Pow2(n) == IF n = 0 THEN 1 ELSE 2 * Pow2(n - 1)

(* 0.3**e on the grid; e = -1 arises in a bandpass design whose working    *)
(* order is 1.                                                             *)
InitialGuess(e) ==
    CASE e < 0 -> 3333
      [] e = 0 -> Milli
      [] e = 1 -> 300
      [] e = 2 -> 90
      [] e = 3 -> 27

ScalarOpt(v) == [ndim |-> 0, size |-> 1, v |-> v]

(* An explicit list of n zeros *)
ZeroList(n) == [ndim |-> 1, size |-> n, v |-> -1]

(* ds_optzeros(n, flag): n zeros placed symmetrically about the band       *)
(* centre, of which this many sit at the centre itself.                    *)
ZerosAtCentre(n, flag) ==
    IF n % 2 = 1 THEN 1 ELSE IF flag = 2 /\ n >= 2 THEN 2 ELSE 0

(* 1 + np.fmod(opt-1, 2) *)
OptFlag(v) == 1 + ((v - 1) % 2)

(* x0.size: the zeros of positive angle, less (opt == 4, bandpass) those   *)
(* at f0.  `order` is the working order at the time z is built.            *)
FreeZeroCount(order, opt, f0) ==
    IF opt.ndim # 0 THEN opt.size \div 2
    ELSE IF opt.v = 0 THEN (IF f0 # 0 THEN order ELSE 0)
    ELSE IF f0 = 0 THEN (order - ZerosAtCentre(order, OptFlag(opt.v))) \div 2
    ELSE IF opt.v = 4 THEN order - ZerosAtCentre(order, OptFlag(opt.v))
    ELSE order

Reflect_none(p) == p

(* Reflect poles to be inside the unit circle: p[out] = 1/p[out] *)
Reflect(p) ==
    [i \in 1..Len(p) |-> IF p[i][1] > p[i][2] THEN <<p[i][2], p[i][1]>> ELSE p[i]]

ZeroPoles(n) == [i \in 1..n |-> <<0, 1>>]

(* The magnitudes the closed-form mapping of x may give the candidate      *)
(* poles: all inside the unit circle, the first on it, the first outside.  *)
PoleCandidates(n) ==
    {[i \in 1..n |-> IF i = 1 THEN first ELSE <<1, 2>>] :
        first \in {<<1, 2>>, <<1, 1>>, <<3, 1>>}}

(* What evalTF reports, less H_inf, at the successive candidates of one    *)
(* sub-iteration: a response that lets the secant steps settle, one that   *)
(* first throws x below 0, one that keeps the steps wandering, one that    *)
(* drives x away, one that meets H_inf just as x passes the limit.         *)
Responses == {"settles", "overshoots", "wanders", "runs_away", "meets_late"}

Wandering == <<-1200, -600, 300, -900>>

RunningAway ==
    <<-38400, -19200, -9600, -4800, -2400, -1200, -600, -300, -60, -12,
      -11, -10, -9, -8, -7, -6, -5, -4, -3, -2>>

MeetingLate ==
    <<-19200, -9600, -4800, -2400, -1200, -600, -300, -60, -12,
      -11, -10, -9, -8, -7, -6, -5, -4, -3, -2, -1>>

At(table, itn) == table[IF itn <= Len(table) THEN itn ELSE Len(table)]

Response(kind, itn, guess, x) ==
    CASE kind = "settles" -> x - (guess + 200)
      [] kind = "overshoots" -> At(<<100 * guess, -100 * guess, 0>>, itn)
      [] kind = "wanders" -> Wandering[((itn - 1) % 4) + 1]
      [] kind = "runs_away" -> At(RunningAway, itn)
      [] kind = "meets_late" -> At(MeetingLate, itn)

(* The responses whose steps stay on the grid from the guess *)
ResponsesFrom(guess) ==
    {kind \in Responses : kind = "overshoots" => guess % 20 = 0}

(* Lines 136-139: delta_x = -f/100, later -f*delta_x/(f-fprev) *)
SecantDelta(itn, f, delta_x, fprev) ==
    IF itn = 1 THEN Quotient(-f, 100) ELSE Quotient((-f) * delta_x, f - fprev)

NextX_unguarded(x, delta_x) == x + delta_x

(* Lines 141-145: x = xplus if xplus > 0, else x*0.1 *)
NextX(x, delta_x) == IF x + delta_x > 0 THEN x + delta_x ELSE x \div 10

SynIdle ==
    [pc |-> "idle", order_req |-> 0, order |-> 0, f0 |-> 0, opt |-> ScalarOpt(0),
     H_inf |-> 0, nz |-> 0, x0n |-> 0, zeros |-> "none", p |-> <<>>,
     cand |-> <<>>, k |-> 0, itn |-> 0, x |-> 0, guess |-> 0, f |-> 0,
     fprev |-> 0, delta_x |-> 0, opt_iteration |-> 0, resp |-> "none",
     ended |-> "none", matched |-> FALSE, warned |-> <<>>, passes |-> 0,
     subits |-> 0, optimized |-> 0, error |-> "none"]

(* Lines 67-104: the zeros, x0 and the loop's initial values *)
SynSetup(order_req, f0, opt, H_inf) ==
    LET half == IF f0 # 0 THEN order_req \div 2 ELSE order_req
        order == IF opt.ndim = 0 /\ f0 # 0 THEN half * 2 ELSE half
        nz == IF opt.ndim = 0 THEN order ELSE opt.size
    IN  IF opt.ndim = 0 /\ half = 0
        THEN [SynIdle EXCEPT !.pc = "error", !.error = "RuntimeError",
                             !.order_req = order_req, !.f0 = f0, !.opt = opt,
                             !.H_inf = H_inf]
        ELSE [SynIdle EXCEPT !.pc = "outer", !.order_req = order_req,
                             !.order = order, !.f0 = f0, !.opt = opt,
                             !.H_inf = H_inf, !.nz = nz, !.zeros = "placed",
                             !.x0n = FreeZeroCount(half, opt, f0),
                             !.p = ZeroPoles(order), !.k = 1, !.fprev = 0,
                             !.opt_iteration = MaxOptIterations]

SynStart ==
    /\ syn.pc = "idle"
    /\ \E order_req \in 1..MaxOrder, f0 \in {0, 1, 3},
          opt \in {ScalarOpt(v) : v \in 0..4} \cup {ZeroList(n) : n \in 1..MaxOrder},
          H_inf \in {1500, 2 * Milli, Pow2(MaxOrder) * Milli} :
          /\ opt.ndim # 0 => opt.size = order_req
          /\ syn' = SynSetup(order_req, f0, opt, H_inf)
    /\ UNCHANGED <<heap, default_options, eager_map, nchanges, last>>

(* HinfLimit = 2**order *)
HinfLimit_doubled(order) == Pow2(order + 1) * Milli

HinfLimit(order) == Pow2(order) * Milli

(* Lines 105-123 and 159-165: the head of one outer pass *)
SynOuterPass ==
    /\ syn.pc = "outer"
    /\ syn.opt_iteration > 0
    /\ IF syn.f0 = 0 /\ syn.H_inf >= HinfLimit(syn.order)
       THEN syn' = [syn EXCEPT !.pc = "zeros", !.passes = @ + 1,
                               !.ended = "unachievable",
                               !.warned = Append(@, "unable"),
                               !.p = ZeroPoles(syn.order)]
       ELSE IF syn.order = 0
       THEN syn' = [syn EXCEPT !.pc = "error", !.error = "ZeroDivisionError",
                               !.passes = @ + 1]
       ELSE LET guess == InitialGuess(IF syn.f0 = 0 THEN syn.order - 1
                                      ELSE (syn.order \div 2) - 1)
            IN  \E kind \in ResponsesFrom(guess) :
                  syn' = [syn EXCEPT !.pc = "for", !.passes = @ + 1,
                                     !.subits = @ + 1, !.ended = "none",
                                     !.x = guess, !.guess = guess, !.itn = 1,
                                     !.resp = kind]
    /\ UNCHANGED <<heap, default_options, eager_map, nchanges, last>>

EndOfStep_keeps_poles(s, order) ==
    IF Abs(s.f) < ftol \/ Abs(s.delta_x) < ftol
    THEN [s EXCEPT !.pc = "zeros", !.ended = "converged"]
    ELSE IF s.x > XDivergence
    THEN [s EXCEPT !.pc = "zeros", !.ended = "diverged",
                   !.warned = Append(@, "unable")]
    ELSE IF s.itn = Hinf_itn_limit
    THEN [s EXCEPT !.pc = "zeros", !.ended = "limit",
                   !.warned = Append(@, "limit")]
    ELSE [s EXCEPT !.itn = @ + 1]

EndOfStep_falls_back_at_limit(s, order) ==
    IF Abs(s.f) < ftol \/ Abs(s.delta_x) < ftol
    THEN [s EXCEPT !.pc = "zeros", !.ended = "converged"]
    ELSE IF s.x > XDivergence
    THEN [s EXCEPT !.pc = "zeros", !.ended = "diverged",
                   !.p = ZeroPoles(order), !.warned = Append(@, "unable")]
    ELSE IF s.itn = Hinf_itn_limit
    THEN [s EXCEPT !.pc = "zeros", !.ended = "limit",
                   !.p = ZeroPoles(order), !.warned = Append(@, "limit")]
    ELSE [s EXCEPT !.itn = @ + 1]

(* Lines 147-157 and 187-197: the tests that end a step.  s is the state   *)
(* once p, f, delta_x, x and fprev have been assigned.                     *)
EndOfStep(s, order) ==
    IF Abs(s.f) < ftol \/ Abs(s.delta_x) < ftol
    THEN [s EXCEPT !.pc = "zeros", !.ended = "converged"]
    ELSE IF s.x > XDivergence
    THEN [s EXCEPT !.pc = "zeros", !.ended = "diverged",
                   !.p = ZeroPoles(order), !.warned = Append(@, "unable")]
    ELSE IF s.itn = Hinf_itn_limit
    THEN [s EXCEPT !.pc = "zeros", !.ended = "limit",
                   !.warned = Append(@, "limit")]
    ELSE [s EXCEPT !.itn = @ + 1]

(* Lines 124-157 and 166-197: one step of the pole-placement sub-iteration *)
SynPoleStep ==
    /\ syn.pc = "for"
    /\ \E cand \in PoleCandidates(syn.order) :
          LET f == Response(syn.resp, syn.itn, syn.guess, syn.x)
              delta_x == SecantDelta(syn.itn, f, syn.delta_x, syn.fprev)
          IN  /\ IF syn.itn = 1 THEN Divides(100, f)
                 ELSE Divides(f - syn.fprev, (-f) * syn.delta_x)
              /\ syn' = EndOfStep([syn EXCEPT !.cand = cand, !.p = Reflect(cand),
                                              !.f = f, !.delta_x = delta_x,
                                              !.x = NextX(syn.x, delta_x),
                                              !.fprev = f],
                                  syn.order)
    /\ UNCHANGED <<heap, default_options, eager_map, nchanges, last>>

NoZeroOptimization_scalars_only(opt, x0n) == opt.size = 1 /\ opt.v < 3

(* Line 200: (opt.size == 1 and opt < 3) or opt.size > 1 or x0.size < 1 *)
NoZeroOptimization(opt, x0n) ==
    (opt.size = 1 /\ opt.v < 3) \/ opt.size > 1 \/ x0n < 1

AfterRefinement_never_counts(opt_iteration, matched) ==
    IF matched THEN 0 ELSE opt_iteration

(* Lines 225-228: opt_iteration once the refined zeros' gain is compared   *)
(* with H_inf                                                              *)
AfterRefinement(opt_iteration, matched) ==
    IF matched THEN 0 ELSE opt_iteration - 1

(* Lines 199-228: the zero optimization part.  `matched` is whether the    *)
(* gain realized with the refined zeros is within ftol of H_inf.           *)
SynZeroOptimization ==
    /\ syn.pc = "zeros"
    /\ IF NoZeroOptimization(syn.opt, syn.x0n)
       THEN syn' = [syn EXCEPT !.pc = "outer", !.opt_iteration = 0]
       ELSE \E matched \in BOOLEAN :
              syn' = [syn EXCEPT !.pc = "outer", !.optimized = @ + 1,
                                 !.nz = Len(syn.p), !.zeros = "refined",
                                 !.matched = matched,
                                 !.opt_iteration = AfterRefinement(@, matched)]
    /\ UNCHANGED <<heap, default_options, eager_map, nchanges, last>>

(* Lines 229-230: z = cplxpair(z); return (z, p, k) *)
SynReturn ==
    /\ syn.pc = "outer"
    /\ syn.opt_iteration = 0
    /\ syn' = [syn EXCEPT !.pc = "done"]
    /\ UNCHANGED <<heap, default_options, eager_map, nchanges, last>>

(* The caller goes on to its next call. *)
SynNextCall ==
    /\ syn.pc \in {"done", "error"}
    /\ syn' = SynIdle
    /\ UNCHANGED <<heap, default_options, eager_map, nchanges, last>>

-----------------------------------------------------------------------------
(* pydsm/ft.py *)

(* 2*quad(lambda f: real(Ff(f*fs))*cos(2*pi*f*t), 0, 0.5, **ip)[0]: the     *)
(* integral is the term of its integrand, its lag and the arguments quad   *)
(* was given; quad itself refuses a keyword it does not know.              *)
_idtft_hermitian(Ff, t, ip) ==
    IF (DOMAIN ip) \subseteq QuadKeys
    THEN [outcome |-> "ok", events |-> <<"quad">>,
          value |-> [integrand |-> Ff.val, lag |-> t, quadargs |-> ip]]
    ELSE [outcome |-> "TypeError", events |-> <<>>, value |-> NoValue]

(* def idtft_hermitian(Ff, tt, ip={}, fs=1), called with a scalar tt and   *)
(* the keyword arguments kw: a keyword that is no parameter is a TypeError.*)
idtft_hermitian(Ff, tt, kw) ==
    IF (DOMAIN kw) \subseteq {"ip", "fs"}
    THEN _idtft_hermitian(Ff, tt, IF "ip" \in DOMAIN kw THEN kw["ip"] ELSE EmptyDict)
    ELSE [outcome |-> "TypeError", events |-> <<>>, value |-> NoValue]

-----------------------------------------------------------------------------
(* pydsm/NTFdesign/weighting/_fir_weighting.py *)

RECURSIVE RProd(_, _)
RProd(wn, f) ==
    IF Len(wn) = 0 THEN <<1, 1>> ELSE RMul(wn[1].val[f], RProd(Tail(wn), f))

(* The value of the local variable h once the loop of mult_weightings has  *)
(* ended: the last filter descriptor among the inputs.                     *)
LoopFinalH(ww) ==
    ww[CHOOSE i \in 1..Len(ww) :
          IsFilter(ww[i]) /\ \A j \in (i + 1)..Len(ww) : ~IsFilter(ww[j])]

(* Every lambda built in the loop reads h when it is called, that is, when *)
(* the returned product is evaluated, after the loop.                      *)
mult_weightings(ww) ==
    LET wn == [i \in 1..Len(ww) |->
                  IF IsFilter(ww[i]) THEN FilterWeighting(LoopFinalH(ww)) ELSE ww[i]]
    IN  Callable([f \in Freqs |-> RProd(wn, f)])

Vector(items) == [kind |-> "vector", items |-> items]

(* np.asarray of a lazy map object: a 0-d object array, nothing evaluated *)
Object0d == [kind |-> "object0d"]

q0_weighting_body(h, P, w, options, allowed) ==
    LET wf == IF IsFilter(w) THEN FilterWeighting(w) ELSE w
        m == MergeOpts(h, default_options["q0_weighting"], options)
        used == [w |-> wf.val]
    IN  IF ~check_options(m.opts, allowed)
        THEN Raise(m.heap, <<"check_options">>, "ConfigError", used)
        ELSE LET kw == [k \in DOMAIN m.opts |-> m.opts[k]]
                 ac(t) == idtft_hermitian(wf, t, kw)
             IN  IF ~eager_map
                 THEN Res(m.heap, <<"check_options">>, "ok", Object0d, used)
                 ELSE IF \E t \in 0..P : ac(t).outcome # "ok"
                 THEN Raise(m.heap, <<"check_options">>, "TypeError", used)
                 ELSE Res(m.heap,
                          <<"check_options">> \o [t \in 1..(P + 1) |-> "quad"],
                          "ok",
                          Vector([t \in 1..(P + 1) |-> ac(t - 1).value]),
                          used)

q0_weighting_checks_union(h, P, w, options) ==
    q0_weighting_body(h, P, w, options, WeightingKeys)

(* def q0_weighting(P, w, **options) *)
q0_weighting(h, P, w, options) ==
    q0_weighting_body(h, P, w, options, {"quad_opts"})

(* The settings a synthesizer ran with: the solver's verbosity, whether    *)
(* the eigenvalue fix was applied, the options handed to the program.      *)
SolverUse(h, opts) ==
    [quiet |-> ~(IF "show_progress" \in DOMAIN opts THEN opts["show_progress"] ELSE TRUE),
     fix_pos |-> (IF "fix_pos" \in DOMAIN opts THEN opts["fix_pos"] ELSE TRUE),
     cvxopt |-> Deref(h, opts["cvxopt_opts"])]

(* cvxpy_tinoco's program.solve(quiet), given what the interior-point      *)
(* solver reports: anything but an optimum surfaces as an error.           *)
solve(sol) == IF sol = "optimal" THEN "ok" ELSE "SolverError"

(* np.roots(np.hstack((1, br.value))) *)
Roots(order, sol) == [leading |-> 1, nfree |-> order, status |-> sol]

Zpk(z, p, k) == [kind |-> "zpk", zeros |-> z, poles |-> p, gain |-> k]

(* padr(poles, order, 0) *)
padr(x, n, val) == x \o [i \in 1..(n - Len(x)) |-> val]

ntf_hybrid_from_q0_late_check(h, q0, poles, options, sol) ==
    LET m == MergeOpts(h, default_options["ntf_hybrid_from_q0"], options)
    IN  IF q0.kind # "vector"
        THEN Raise(m.heap, <<>>, "IndexError", EmptyDict)
        ELSE IF Len(poles) > Len(q0.items) - 1
        THEN Raise(m.heap, <<>>, "ValueError", EmptyDict)
        ELSE IF ~check_options(m.opts, SynthKeys)
        THEN Raise(m.heap, <<"eigh", "check_options">>, "ConfigError", EmptyDict)
        ELSE IF solve(sol) # "ok"
        THEN Raise(m.heap, <<"eigh", "check_options", "solve">>, solve(sol),
                   SolverUse(m.heap, m.opts))
        ELSE Res(m.heap, <<"eigh", "check_options", "solve">>, "ok",
                 Zpk(Roots(Len(q0.items) - 1, sol),
                     padr(poles, Len(q0.items) - 1, <<0, 1>>), 1),
                 SolverUse(m.heap, m.opts))

ntf_hybrid_from_q0_unpadded(h, q0, poles, options, sol) ==
    LET m == MergeOpts(h, default_options["ntf_hybrid_from_q0"], options)
    IN  IF ~check_options(m.opts, SynthKeys)
        THEN Raise(m.heap, <<"check_options">>, "ConfigError", EmptyDict)
        ELSE IF q0.kind # "vector"
        THEN Raise(m.heap, <<"check_options">>, "IndexError", EmptyDict)
        ELSE IF Len(poles) > Len(q0.items) - 1
        THEN Raise(m.heap, <<"check_options">>, "ValueError", EmptyDict)
        ELSE IF solve(sol) # "ok"
        THEN Raise(m.heap, <<"check_options", "eigh", "solve">>, solve(sol),
                   SolverUse(m.heap, m.opts))
        ELSE Res(m.heap, <<"check_options", "eigh", "solve">>, "ok",
                 Zpk(Roots(Len(q0.items) - 1, sol), poles, 1),
                 SolverUse(m.heap, m.opts))

(* def ntf_hybrid_from_q0(q0, H_inf=1.5, poles=[], normalize="auto",       *)
(* **options); sol is what the interior-point solver reports.              *)
ntf_hybrid_from_q0(h, q0, poles, options, sol) ==
    LET m == MergeOpts(h, default_options["ntf_hybrid_from_q0"], options)
    IN  IF ~check_options(m.opts, SynthKeys)
        THEN Raise(m.heap, <<"check_options">>, "ConfigError", EmptyDict)
        ELSE IF q0.kind # "vector"
        THEN Raise(m.heap, <<"check_options">>, "IndexError", EmptyDict)
        ELSE IF Len(poles) > Len(q0.items) - 1
        THEN Raise(m.heap, <<"check_options">>, "ValueError", EmptyDict)
        ELSE IF solve(sol) # "ok"
        THEN Raise(m.heap, <<"check_options", "eigh", "solve">>, solve(sol),
                   SolverUse(m.heap, m.opts))
        ELSE Res(m.heap, <<"check_options", "eigh", "solve">>, "ok",
                 Zpk(Roots(Len(q0.items) - 1, sol),
                     padr(poles, Len(q0.items) - 1, <<0, 1>>), 1),
                 SolverUse(m.heap, m.opts))

ntf_fir_from_q0_shares_defaults(h, q0, options, sol) ==
    LET m == MergeOptsInPlace(h, default_options["ntf_fir_from_q0"], options)
    IN  IF ~check_options(m.opts, SynthKeys)
        THEN Raise(m.heap, <<"check_options">>, "ConfigError", EmptyDict)
        ELSE IF q0.kind # "vector"
        THEN Raise(m.heap, <<"check_options">>, "IndexError", EmptyDict)
        ELSE IF solve(sol) # "ok"
        THEN Raise(m.heap, <<"check_options", "eigh", "solve">>, solve(sol),
                   SolverUse(m.heap, m.opts))
        ELSE Res(m.heap, <<"check_options", "eigh", "solve">>, "ok",
                 Zpk(Roots(Len(q0.items) - 1, sol),
                     [i \in 1..(Len(q0.items) - 1) |-> <<0, 1>>], 1),
                 SolverUse(m.heap, m.opts))

ntf_fir_from_q0_retries(h, q0, options, sol) ==
    LET m == MergeOpts(h, default_options["ntf_fir_from_q0"], options)
    IN  IF ~check_options(m.opts, SynthKeys)
        THEN Raise(m.heap, <<"check_options">>, "ConfigError", EmptyDict)
        ELSE IF q0.kind # "vector"
        THEN Raise(m.heap, <<"check_options">>, "IndexError", EmptyDict)
        ELSE Res(m.heap,
                 IF solve(sol) # "ok"
                 THEN <<"check_options", "eigh", "solve", "solve">>
                 ELSE <<"check_options", "eigh", "solve">>,
                 "ok",
                 Zpk(Roots(Len(q0.items) - 1, sol),
                     [i \in 1..(Len(q0.items) - 1) |-> <<0, 1>>], 1),
                 SolverUse(m.heap, m.opts))

(* def ntf_fir_from_q0(q0, H_inf=1.5, normalize="auto", **options) *)
ntf_fir_from_q0(h, q0, options, sol) ==
    LET m == MergeOpts(h, default_options["ntf_fir_from_q0"], options)
    IN  IF ~check_options(m.opts, SynthKeys)
        THEN Raise(m.heap, <<"check_options">>, "ConfigError", EmptyDict)
        ELSE IF q0.kind # "vector"
        THEN Raise(m.heap, <<"check_options">>, "IndexError", EmptyDict)
        ELSE IF solve(sol) # "ok"
        THEN Raise(m.heap, <<"check_options", "eigh", "solve">>, solve(sol),
                   SolverUse(m.heap, m.opts))
        ELSE Res(m.heap, <<"check_options", "eigh", "solve">>, "ok",
                 Zpk(Roots(Len(q0.items) - 1, sol),
                     [i \in 1..(Len(q0.items) - 1) |-> <<0, 1>>], 1),
                 SolverUse(m.heap, m.opts))

(* The merged options of a call, nested dictionaries read through *)
Resolved(h, opts) ==
    [k \in DOMAIN opts |->
        IF k \in {"quad_opts", "cvxopt_opts"} THEN Deref(h, opts[k]) ELSE opts[k]]

(* A callee's result seen by its caller: the callee's events follow the    *)
(* caller's own, the settings used accumulate.                             *)
After(ev, used, r) ==
    Res(r.heap, ev \o r.events, r.outcome, r.value, DictUpdate(used, r.used))

(* def ntf_hybrid_weighting(order, w, H_inf=1.5, poles=[],                 *)
(* normalize="auto", **options)                                            *)
ntf_hybrid_weighting(h, order, w, poles, options, sol) ==
    LET m == MergeOpts(h, default_options["ntf_fir_weighting"], options)
    IN  IF ~check_options(m.opts, WeightingKeys)
        THEN Raise(m.heap, <<"check_options">>, "ConfigError", EmptyDict)
        ELSE LET wn == IF Len(poles) > 0
                       THEN mult_weightings(<<w, ZpkFilter(<<>>, poles, 1)>>)
                       ELSE w
                 q == q0_weighting(m.heap, order, wn,
                                   [quad_opts |-> m.opts["quad_opts"]])
                 own == [opts |-> Resolved(m.heap, m.opts)]
             IN  IF q.outcome # "ok"
                 THEN After(<<"check_options">>, own, q)
                 ELSE After(<<"check_options">> \o q.events, DictUpdate(own, q.used),
                            ntf_hybrid_from_q0(q.heap, q.value, poles,
                                [show_progress |-> m.opts["show_progress"],
                                 cvxopt_opts |-> m.opts["cvxopt_opts"]], sol))

(* def ntf_fir_weighting(order, w, H_inf=1.5, normalize="auto", **options) *)
ntf_fir_weighting(h, order, w, options, sol) ==
    LET m == MergeOpts(h, default_options["ntf_fir_weighting"], options)
    IN  IF ~check_options(m.opts, WeightingKeys)
        THEN Raise(m.heap, <<"check_options">>, "ConfigError", EmptyDict)
        ELSE LET q == q0_weighting(m.heap, order, w,
                                   [quad_opts |-> m.opts["quad_opts"]])
                 own == [opts |-> Resolved(m.heap, m.opts)]
             IN  IF q.outcome # "ok"
                 THEN After(<<"check_options">>, own, q)
                 ELSE After(<<"check_options">> \o q.events, DictUpdate(own, q.used),
                            ntf_fir_from_q0(q.heap, q.value,
                                [show_progress |-> m.opts["show_progress"],
                                 cvxopt_opts |-> m.opts["cvxopt_opts"]], sol))

(* warn(..., PyDsmDeprecationWarning), then the implementation's result *)
WarnThen(r) ==
    Res(r.heap, <<"warn_deprecated">> \o r.events, r.outcome, r.value, r.used)

q0_from_noise_weighting_drops_options(h, pos, options) ==
    IF Len(pos) # 2
    THEN Raise(h, <<>>, "TypeError", EmptyDict)
    ELSE WarnThen(q0_weighting(h, pos[1], pos[2], EmptyDict))

(* def q0_from_noise_weighting(P, w, **options), called with the           *)
(* positional arguments pos: the function binds exactly two of them, a     *)
(* call with any other number is a TypeError raised before the body runs.  *)
q0_from_noise_weighting(h, pos, options) ==
    IF Len(pos) # 2
    THEN Raise(h, <<>>, "TypeError", EmptyDict)
    ELSE WarnThen(q0_weighting(h, pos[1], pos[2], options))

(* def synthesize_ntf_from_q0(q0, H_inf=1.5, normalize="auto", **options) *)
synthesize_ntf_from_q0(h, q0, options, sol) ==
    WarnThen(ntf_fir_from_q0(h, q0, options, sol))

(* def synthesize_ntf_from_noise_weighting(order, noise_weighting,         *)
(* H_inf=1.5, normalize="auto", **options)                                 *)
synthesize_ntf_from_noise_weighting(h, order, w, options, sol) ==
    WarnThen(ntf_fir_weighting(h, order, w, options, sol))

-----------------------------------------------------------------------------
(* pydsm/NTFdesign/filter_based/_q0_from_filter.py *)

(* h_mag2 = lambda f: h_mag(f)**2 *)
SquaredMagnitude(h_mag) == Callable([f \in Freqs |-> RSquare(h_mag.val[f])])

(* return q0_from_noise_weighting(P, h_mag2, integrator_params) *)
q0_from_filter_mag_response(h, P, h_mag, integrator_params) ==
    q0_from_noise_weighting(h, <<P, SquaredMagnitude(h_mag), integrator_params>>,
                            EmptyDict)

-----------------------------------------------------------------------------
(* The inputs the callers of the model draw from *)

WOne == Callable([f \in Freqs |-> <<1, 1>>])

WRamp == Callable([f \in Freqs |-> <<f + 1, 1>>])

HBa == BaFilter(<<1, 2>>, <<1>>)

HZpk == ZpkFilter(<<>>, << <<1, 2>> >>, 1)

Weightings == {WOne, WRamp, HBa, HZpk}

(* n distinct poles 1/2, 1/3, ... *)
PoleList(n) == [i \in 1..n |-> <<1, i + 1>>]

Q0Vector(n) == Vector([i \in 1..n |-> "q"])

OptionSets ==
    {EmptyDict,
     [quad_opts |-> Lit([epsabs |-> 1])],
     [quad_opts |-> Lit([epsabs |-> 1, bogus |-> 1])],
     [cvxopt_opts |-> Lit([maxiters |-> 1])],
     [show_progress |-> FALSE],
     [fix_pos |-> FALSE],
     [bogus |-> 1]}

IntegratorParams == {[epsabs |-> 0, epsrel |-> 0], [epsabs |-> 1]}

(* The status the cone solver ends with *)
SolverReports == {"optimal", "primal infeasible", "unknown"}

-----------------------------------------------------------------------------
(* The API specification: one action per public function *)

NoCall ==
    [fn |-> "none", args |-> EmptyDict, events |-> <<>>, outcome |-> "none",
     value |-> NoValue, used |-> EmptyDict]


Init ==
    /\ heap = InitHeap
    /\ default_options = InitDefaultOptions
    /\ eager_map \in BOOLEAN
    /\ nchanges = 0
    /\ last = NoCall
    /\ syn = SynIdle

Finish(fn, args, r) ==
    /\ heap' = r.heap
    /\ last' = [fn |-> fn, args |-> args, events |-> r.events,
                outcome |-> r.outcome, value |-> r.value, used |-> r.used]
    /\ UNCHANGED <<default_options, eager_map, nchanges, syn>>

CallMultWeightings ==
    /\ last.fn = "none"
    /\ \E w1 \in Weightings, w2 \in Weightings :
          Finish("mult_weightings", [ww |-> <<w1, w2>>],
                 Res(heap, <<>>, "ok", mult_weightings(<<w1, w2>>), EmptyDict))

CallQ0Weighting ==
    /\ last.fn = "none"
    /\ \E P \in 0..MaxP, w \in Weightings, o \in OptionSets :
          Finish("q0_weighting", [P |-> P, w |-> w, options |-> o],
                 q0_weighting(heap, P, w, o))

CallNtfHybridFromQ0 ==
    /\ last.fn = "none"
    /\ \E n \in 2..(MaxP + 1), np \in 0..(MaxP + 1), o \in OptionSets,
          sol \in SolverReports :
          Finish("ntf_hybrid_from_q0",
                 [q0 |-> Q0Vector(n), poles |-> PoleList(np), options |-> o, sol |-> sol],
                 ntf_hybrid_from_q0(heap, Q0Vector(n), PoleList(np), o, sol))

CallNtfFirFromQ0 ==
    /\ last.fn = "none"
    /\ \E n \in 2..(MaxP + 1), o \in OptionSets, sol \in SolverReports :
          Finish("ntf_fir_from_q0", [q0 |-> Q0Vector(n), options |-> o, sol |-> sol],
                 ntf_fir_from_q0(heap, Q0Vector(n), o, sol))

CallNtfHybridWeighting ==
    /\ last.fn = "none"
    /\ \E order \in 1..MaxP, w \in Weightings, np \in 0..(MaxP + 1),
          o \in OptionSets, sol \in SolverReports :
          Finish("ntf_hybrid_weighting",
                 [order |-> order, w |-> w, poles |-> PoleList(np), options |-> o, sol |-> sol],
                 ntf_hybrid_weighting(heap, order, w, PoleList(np), o, sol))

CallNtfFirWeighting ==
    /\ last.fn = "none"
    /\ \E order \in 1..MaxP, w \in Weightings, o \in OptionSets,
          sol \in SolverReports :
          Finish("ntf_fir_weighting", [order |-> order, w |-> w, options |-> o, sol |-> sol],
                 ntf_fir_weighting(heap, order, w, o, sol))

CallQ0FromNoiseWeighting ==
    /\ last.fn = "none"
    /\ \E P \in 0..MaxP, w \in Weightings, o \in OptionSets :
          Finish("q0_from_noise_weighting", [P |-> P, w |-> w, options |-> o],
                 q0_from_noise_weighting(heap, <<P, w>>, o))

CallSynthesizeNtfFromQ0 ==
    /\ last.fn = "none"
    /\ \E n \in 2..(MaxP + 1), o \in OptionSets, sol \in SolverReports :
          Finish("synthesize_ntf_from_q0", [q0 |-> Q0Vector(n), options |-> o, sol |-> sol],
                 synthesize_ntf_from_q0(heap, Q0Vector(n), o, sol))

CallSynthesizeNtfFromNoiseWeighting ==
    /\ last.fn = "none"
    /\ \E order \in 1..MaxP, w \in Weightings, o \in OptionSets,
          sol \in SolverReports :
          Finish("synthesize_ntf_from_noise_weighting",
                 [order |-> order, w |-> w, options |-> o, sol |-> sol],
                 synthesize_ntf_from_noise_weighting(heap, order, w, o, sol))

CallQ0FromFilterMagResponse ==
    /\ last.fn = "none"
    /\ \E P \in 0..MaxP, h_mag \in {WOne, WRamp}, ip \in IntegratorParams :
          Finish("q0_from_filter_mag_response",
                 [P |-> P, h_mag |-> h_mag, integrator_params |-> ip],
                 q0_from_filter_mag_response(heap, P, h_mag, ip))

(* The call has returned (or raised) and its frame is gone. *)
Return ==
    /\ last.fn # "none"
    /\ last' = NoCall
    /\ UNCHANGED <<heap, default_options, eager_map, nchanges, syn>>

(* The caller edits a default between calls, as the docstrings invite:     *)
(* f.default_options[key] = v                                             *)
SetDefault ==
    /\ last.fn = "none"
    /\ nchanges < MaxChanges
    /\ \E fn \in Functions \cup Aliases, key \in {"show_progress", "fix_pos"},
          v \in BOOLEAN :
          /\ key \in DOMAIN heap[default_options[fn]]
          /\ heap' = [heap EXCEPT ![default_options[fn]] = [@ EXCEPT ![key] = v]]
    /\ nchanges' = nchanges + 1
    /\ UNCHANGED <<default_options, eager_map, last, syn>>

(* f.default_options[key][sub] = v, on the nested dictionary *)
SetNestedDefault ==
    /\ last.fn = "none"
    /\ nchanges < MaxChanges
    /\ \E fn \in Functions \cup Aliases, key \in {"quad_opts", "cvxopt_opts"},
          v \in 0..1 :
          /\ key \in DOMAIN heap[default_options[fn]]
          /\ LET sub == IF key = "quad_opts" THEN "epsabs" ELSE "maxiters"
                 id == heap[default_options[fn]][key].ref
             IN  heap' = [heap EXCEPT ![id] = [@ EXCEPT ![sub] = v]]
    /\ nchanges' = nchanges + 1
    /\ UNCHANGED <<default_options, eager_map, last, syn>>

Next ==
    \/ CallMultWeightings
    \/ CallQ0Weighting
    \/ CallNtfHybridFromQ0
    \/ CallNtfFirFromQ0
    \/ CallNtfHybridWeighting
    \/ CallNtfFirWeighting
    \/ CallQ0FromNoiseWeighting
    \/ CallSynthesizeNtfFromQ0
    \/ CallSynthesizeNtfFromNoiseWeighting
    \/ CallQ0FromFilterMagResponse
    \/ Return
    \/ SetDefault
    \/ SetNestedDefault

Spec == Init /\ [][Next]_vars

InitNTF1 ==
    /\ heap = InitHeap
    /\ default_options = InitDefaultOptions
    /\ eager_map = TRUE
    /\ nchanges = 0
    /\ last = NoCall
    /\ syn = SynIdle

NextNTF1 ==
    \/ SynStart
    \/ SynOuterPass
    \/ SynPoleStep
    \/ SynZeroOptimization
    \/ SynReturn
    \/ SynNextCall

SpecNTF1 == InitNTF1 /\ [][NextNTF1]_vars

-----------------------------------------------------------------------------
(* Properties of the API *)

Range(s) == {s[i] : i \in DOMAIN s}

Work == {"quad", "eigh", "solve"}

Recognized(fn) ==
    CASE fn = "q0_weighting" -> {"quad_opts"}
      [] fn \in {"ntf_hybrid_from_q0", "ntf_fir_from_q0"} -> SynthKeys
      [] fn \in {"ntf_hybrid_weighting", "ntf_fir_weighting"} -> WeightingKeys

(* What input w contributes to a product of weightings at frequency f *)
Contribution(w, f) == IF IsFilter(w) THEN Mag2(w, f) ELSE w.val[f]

(* C1: a call of ntf_hybrid_from_q0, direct or through                     *)
(* ntf_hybrid_weighting, with more poles than the order ends with a        *)
(* ValueError and without the solver having run; with at most `order`      *)
(* poles no ValueError is raised.                                          *)
C1_TooManyPolesIsValueError ==
    /\ (last.fn = "ntf_hybrid_from_q0"
          /\ (DOMAIN last.args.options) \subseteq SynthKeys)
        => IF Len(last.args.poles) > Len(last.args.q0.items) - 1
           THEN last.outcome = "ValueError" /\ "solve" \notin Range(last.events)
           ELSE last.outcome # "ValueError"
    /\ (last.fn = "ntf_hybrid_weighting"
          /\ (DOMAIN last.args.options) \subseteq WeightingKeys)
        => IF Len(last.args.poles) > last.args.order
           THEN last.outcome = "ValueError" /\ "solve" \notin Range(last.events)
           ELSE last.outcome # "ValueError"

(* C2: the function mult_weightings returns is, at every frequency, the    *)
(* product of each input's own weighting: w(f) for a callable, |H(f)|^2 of *)
(* that same descriptor for a filter; so is the weighting                  *)
(* ntf_hybrid_weighting integrates, w times the pole filter's.             *)
C2_ProductOfOwnWeightings ==
    /\ last.fn = "mult_weightings"
        => \A f \in Freqs :
              REq(last.value.val[f],
                  RMul(Contribution(last.args.ww[1], f),
                       Contribution(last.args.ww[2], f)))
    /\ (last.fn = "ntf_hybrid_weighting" /\ "w" \in DOMAIN last.used
          /\ Len(last.args.poles) > 0)
        => \A f \in Freqs :
              REq(last.used.w[f],
                  RMul(Contribution(last.args.w, f),
                       Mag2(ZpkFilter(<<>>, last.args.poles, 1), f)))

(* The integrator options a q0_weighting call asks for *)
AskedQuadOpts(o) ==
    IF "quad_opts" \in DOMAIN o THEN o["quad_opts"].lit ELSE heap[Ref("quad").ref]

(* C3: q0_weighting(P, w, quad_opts=o) with recognized options completes   *)
(* and returns P+1 entries, entry k being idtft_hermitian(w, k) computed   *)
(* with the integrator options o (the defaults when none is given).        *)
C3_Q0IsVectorOfIntegrals ==
    (last.fn = "q0_weighting"
      /\ (DOMAIN last.args.options) \subseteq {"quad_opts"}
      /\ (DOMAIN AskedQuadOpts(last.args.options)) \subseteq QuadKeys)
    => /\ last.outcome = "ok"
       /\ last.value.kind = "vector"
       /\ Len(last.value.items) = last.args.P + 1
       /\ \A k \in 0..last.args.P :
             last.value.items[k + 1] =
                 [integrand |-> last.used.w, lag |-> k,
                  quadargs |-> AskedQuadOpts(last.args.options)]

(* C4: q0_from_filter_mag_response(P, h_mag, integrator_params) does not   *)
(* raise: it hands the weighting h_mag^2 and the integrator parameters to  *)
(* the weighting-based builder and returns its P+1 entries.                *)
C4_MagResponseDelegates ==
    last.fn = "q0_from_filter_mag_response"
    => /\ last.outcome = "ok"
       /\ "w" \in DOMAIN last.used
       /\ last.used.w = SquaredMagnitude(last.args.h_mag).val

(* C5 as stated: q0_weighting rejects, as a configuration error and before *)
(* integrating, a call whose quad_opts holds a key other than epsabs,      *)
(* epsrel, limit, points.                                                  *)
C5_NestedKeysRejected ==
    (last.fn = "q0_weighting"
      /\ "quad_opts" \in DOMAIN last.args.options
      /\ ~((DOMAIN last.args.options["quad_opts"].lit) \subseteq QuadKeys))
    => last.outcome = "ConfigError" /\ "quad" \notin Range(last.events)

(* C5 amended: q0_weighting rejects, as a configuration error and before   *)
(* integrating, exactly the calls given an option other than quad_opts;    *)
(* the keys inside quad_opts play no part in that check.                   *)
C5_TopLevelKeysRejected ==
    last.fn = "q0_weighting"
    => /\ last.outcome = "ConfigError"
              <=> ~((DOMAIN last.args.options) \subseteq {"quad_opts"})
       /\ last.outcome = "ConfigError" => last.events = <<"check_options">>

C5_Witness ==
    /\ last.fn = "q0_weighting"
    /\ "show_progress" \in DOMAIN last.args.options
    /\ last.outcome = "ConfigError"

(* C6: a call of one of the five functions with an option key outside the  *)
(* set that function recognizes fails with a configuration error before    *)
(* any integration, eigendecomposition or solver call.                     *)
C6_UnrecognizedKeyFailsFirst ==
    (last.fn \in Functions
      /\ ~((DOMAIN last.args.options) \subseteq Recognized(last.fn)))
    => /\ last.outcome = "ConfigError"
       /\ Range(last.events) \cap Work = {}

C6_Witness ==
    /\ last.fn = "ntf_hybrid_from_q0"
    /\ "bogus" \in DOMAIN last.args.options
    /\ Len(last.args.poles) <= Len(last.args.q0.items) - 1
    /\ last.outcome = "ConfigError"

(* C9: no call changes a default_options template, top-level or nested:    *)
(* only the caller's own edits do, and until the first such edit the       *)
(* defaults are those the module was loaded with.                          *)
C9_CallsLeaveDefaultsAlone ==
    /\ [][nchanges' = nchanges
            => heap' = heap /\ default_options' = default_options]_vars
    /\ [](nchanges = 0
            => heap = InitHeap /\ default_options = InitDefaultOptions)

C9_Witness ==
    /\ last.fn = "ntf_fir_from_q0"
    /\ "cvxopt_opts" \in DOMAIN last.args.options
    /\ last.outcome = "ok"
    /\ last.used.cvxopt = [maxiters |-> 1]
    /\ heap = InitHeap

(* What the implementation of an alias does on the alias call's inputs *)
ImplementationResult(c) ==
    CASE c.fn = "q0_from_noise_weighting" ->
            q0_weighting(heap, c.args.P, c.args.w, c.args.options)
      [] c.fn = "synthesize_ntf_from_q0" ->
            ntf_fir_from_q0(heap, c.args.q0, c.args.options, c.args.sol)
      [] c.fn = "synthesize_ntf_from_noise_weighting" ->
            ntf_fir_weighting(heap, c.args.order, c.args.w, c.args.options,
                              c.args.sol)

(* C10: a call of a deprecated alias first emits the deprecation warning,  *)
(* then does what its implementation does on the same arguments and        *)
(* options and ends as it ends; the alias's defaults are the               *)
(* implementation's, also after defaults were edited.                      *)
C10_AliasWarnsThenDelegates ==
    /\ last.fn \in Aliases
        => LET r == ImplementationResult(last)
           IN  /\ last.events = <<"warn_deprecated">> \o r.events
               /\ last.outcome = r.outcome
               /\ last.value = r.value
               /\ last.used = r.used
    /\ \A a \in Aliases :
          heap[default_options[a]] = heap[default_options[Implementation(a)]]

C10_Witness ==
    /\ last.fn = "synthesize_ntf_from_q0"
    /\ last.outcome = "ok"
    /\ last.events = <<"warn_deprecated", "check_options", "eigh", "solve">>
    /\ nchanges > 0
    /\ heap["fq0"]["show_progress"] = FALSE
    /\ last.used.quiet

(* How many times event e occurs in the sequence ev *)
Count(ev, e) == Cardinality({i \in DOMAIN ev : ev[i] = e})

(* C11: a call of ntf_fir_from_q0 or ntf_hybrid_from_q0 invokes the solver *)
(* at most once, exactly once when it returns; when the solver reports     *)
(* anything but an optimum the call ends with the solver's error and       *)
(* returns no (zeros, poles, gain) triple.                                 *)
C11_SolverOnceAndFatal ==
    last.fn \in {"ntf_fir_from_q0", "ntf_hybrid_from_q0"}
    => /\ Count(last.events, "solve") <= 1
       /\ last.outcome = "ok" => Count(last.events, "solve") = 1
       /\ ("solve" \in Range(last.events) /\ last.args.sol # "optimal")
            => (last.outcome = "SolverError" /\ last.value = NoValue)

C11_Witness ==
    /\ last.fn = "ntf_fir_from_q0"
    /\ last.args.sol = "primal infeasible"
    /\ last.events = <<"check_options", "eigh", "solve">>
    /\ last.outcome = "SolverError"
    /\ last.value = NoValue

(* C12: with order = len(q0) - 1, a successful ntf_fir_from_q0 returns     *)
(* `order` poles at 0 and gain 1; a successful ntf_hybrid_from_q0 returns  *)
(* the caller's poles in their order followed by zeros up to `order`, and  *)
(* gain 1; the zeros are the roots of a polynomial of `order` free         *)
(* coefficients after a leading 1.                                         *)
C12_PolesAndGainOfResult ==
    (last.fn \in {"ntf_fir_from_q0", "ntf_hybrid_from_q0"} /\ last.outcome = "ok")
    => LET order == Len(last.args.q0.items) - 1
           given == IF last.fn = "ntf_hybrid_from_q0" THEN last.args.poles ELSE <<>>
       IN  /\ Len(last.value.poles) = order
           /\ \A i \in 1..order :
                 last.value.poles[i] = IF i <= Len(given) THEN given[i] ELSE <<0, 1>>
           /\ last.value.gain = 1
           /\ last.value.zeros.leading = 1
           /\ last.value.zeros.nfree = order

(* ntf_hybrid_from_q0 has returned for an order above the number of poles  *)
(* it was given, which is not zero.                                        *)
C12_Witness ==
    /\ last.fn = "ntf_hybrid_from_q0"
    /\ last.outcome = "ok"
    /\ Len(last.args.poles) = 1
    /\ Len(last.args.q0.items) = 3
    /\ last.value.poles = <<<<1, 2>>, <<0, 1>>>>

(* C13: for every option a call of ntf_hybrid_weighting is not given, the  *)
(* value the call works with is that of ntf_hybrid_weighting's own         *)
(* default_options, as it stands at the call.                              *)
C13_HybridWeightingUsesOwnDefaults ==
    (last.fn = "ntf_hybrid_weighting" /\ "opts" \in DOMAIN last.used)
    => \A k \in WeightingKeys \ DOMAIN last.args.options :
          last.used.opts[k] =
              Resolved(heap, heap[default_options["ntf_hybrid_weighting"]])[k]

(* C14: in a call of ntf_fir_weighting or ntf_hybrid_weighting with        *)
(* recognized options and no more poles than the order, the underlying     *)
(* *_from_q0 step runs, with the eigenvalue fix enabled exactly when the   *)
(* call's fix_pos (given, or else the default) is true.                    *)
C14_FixPosGovernsTheFix ==
    (last.fn \in {"ntf_fir_weighting", "ntf_hybrid_weighting"}
      /\ "opts" \in DOMAIN last.used
      /\ (last.fn = "ntf_hybrid_weighting"
            => Len(last.args.poles) <= last.args.order))
    => /\ "eigh" \in Range(last.events)
       /\ "fix_pos" \in DOMAIN last.used
       /\ last.used.fix_pos = last.used.opts["fix_pos"]

-----------------------------------------------------------------------------
(* Properties of synthesizeNTF1 *)

(* C7: a lowpass call (f0 = 0) with H_inf >= 2^order, whatever the form of *)
(* opt, does not fail: it ends having warned that H_inf cannot be          *)
(* achieved, and the poles it returns are `order` zeros.                   *)
C7_UnachievableHinfFallsBack ==
    (syn.pc \in {"done", "error"} /\ syn.f0 = 0
        /\ syn.H_inf >= Pow2(syn.order_req) * Milli)
    => /\ syn.pc = "done"
       /\ Len(syn.warned) >= 1
       /\ \A i \in 1..Len(syn.warned) : syn.warned[i] = "unable"
       /\ syn.p = ZeroPoles(syn.order_req)

(* A lowpass call with an unachievable H_inf has returned after the zero   *)
(* optimizer ran in each of the five outer passes.                         *)
C7_Witness ==
    /\ syn.pc = "done"
    /\ syn.f0 = 0
    /\ syn.H_inf >= Pow2(syn.order_req) * Milli
    /\ syn.opt.v >= 3
    /\ syn.optimized = MaxOptIterations
    /\ Len(syn.warned) = MaxOptIterations

(* C8: every call that returns yields exactly the requested `order` poles  *)
(* and gain 1, lowpass or bandpass, even or odd order, opt a scalar flag   *)
(* or an explicit zero list.                                               *)
C8_ReturnsOrderPolesAndUnitGain ==
    syn.pc = "done" => (Len(syn.p) = syn.order_req /\ syn.k = 1)

(* Zero optimization is not requested: opt is a scalar below 3 or an       *)
(* explicit zero list, or no zero is free.                                 *)
NotRequested ==
    \/ (syn.opt.ndim = 0 /\ syn.opt.v < 3)
    \/ syn.opt.ndim # 0
    \/ syn.x0n < 1

(* The zeros as first placed: `order` of them for a scalar opt, the        *)
(* caller's list otherwise.                                                *)
ZerosAsPlaced ==
    /\ syn.zeros = "placed"
    /\ syn.nz = IF syn.opt.ndim = 0 THEN syn.order ELSE syn.opt.size

(* C15 as stated: when zero optimization is not requested, a call that     *)
(* returns ran the outer loop body once, performed one pole-placement      *)
(* sub-iteration, never called the optimizer and returns the zeros as      *)
(* first placed.                                                           *)
C15_OnePassOneSubIteration ==
    (syn.pc = "done" /\ NotRequested)
    => /\ syn.passes = 1
       /\ syn.subits = 1
       /\ syn.optimized = 0
       /\ ZerosAsPlaced

(* C15 amended: ... ran the outer loop body once, with one pole-placement  *)
(* sub-iteration, or none when the design is lowpass with                  *)
(* H_inf >= 2^order; the optimizer was never called and the zeros are as   *)
(* first placed.                                                           *)
C15_OnePassAtMostOneSubIteration ==
    (syn.pc = "done" /\ NotRequested)
    => /\ syn.passes = 1
       /\ syn.subits =
            (IF syn.f0 = 0 /\ syn.H_inf >= Pow2(syn.order) * Milli THEN 0 ELSE 1)
       /\ syn.optimized = 0
       /\ ZerosAsPlaced

(* A call asking for optimized zeros (opt = 3) that has no free zero has   *)
(* returned after its one sub-iteration.                                   *)
C15_Witness ==
    /\ syn.pc = "done"
    /\ syn.opt.ndim = 0
    /\ syn.opt.v = 3
    /\ syn.x0n = 0
    /\ syn.passes = 1
    /\ syn.subits = 1

(* What is left of a call: passes first, then the phase of the pass, then  *)
(* the steps of its sub-iteration.                                         *)
Remaining(s) ==
    CASE s.pc = "outer" -> s.opt_iteration * Milli + 900
      [] s.pc = "for" -> s.opt_iteration * Milli + 600 + (Hinf_itn_limit - s.itn)
      [] s.pc = "zeros" -> s.opt_iteration * Milli + 300
      [] OTHER -> 0

(* C16: every call terminates: the outer loop runs at most 5 passes and    *)
(* stops as soon as the gain with the refined zeros matches H_inf, a       *)
(* sub-iteration takes at most 100 steps, and every step of a call         *)
(* strictly decreases what is left of it, which is never negative.         *)
C16_CallTerminates ==
    /\ [](/\ syn.passes <= MaxOptIterations
          /\ syn.itn <= Hinf_itn_limit
          /\ Remaining(syn) >= 0
          /\ (syn.pc = "outer" /\ syn.zeros = "refined" /\ syn.matched)
                => syn.opt_iteration = 0)
    /\ [][syn.pc \in {"outer", "for", "zeros"}
            => Remaining(syn') < Remaining(syn)]_vars

(* A call has returned after five passes, the last of which ran into the   *)
(* cap of 100 steps.                                                       *)
C16_Witness ==
    /\ syn.pc = "done"
    /\ syn.passes = MaxOptIterations
    /\ syn.optimized = MaxOptIterations
    /\ syn.ended = "limit"
    /\ syn.itn = Hinf_itn_limit

LastWarning == syn.warned[Len(syn.warned)]

(* C17 as stated: whenever x has grown past 1e6 in a sub-iteration, the    *)
(* sub-iteration stopped at that step, a warning was emitted and the poles *)
(* it leaves are all zero.                                                 *)
C17_DivergenceFallsBack ==
    (syn.pc \in {"for", "zeros"} /\ syn.x > XDivergence)
    => /\ syn.pc = "zeros"
       /\ Len(syn.warned) >= 1
       /\ LastWarning = "unable"
       /\ syn.p = ZeroPoles(syn.order)

(* C17 amended: whenever x has grown past 1e6 at a step that does not meet *)
(* the convergence test (|f| < 1e-10 or |delta_x| < 1e-10), the            *)
(* sub-iteration stopped at that step, a warning was emitted and the poles *)
(* it leaves are all zero; a step that meets the test ends the             *)
(* sub-iteration as converged, without warning, whatever x.                *)
C17_DivergenceFallsBackUnlessConverged ==
    /\ (syn.pc \in {"for", "zeros"} /\ syn.x > XDivergence
          /\ ~(Abs(syn.f) < ftol \/ Abs(syn.delta_x) < ftol))
        => /\ syn.pc = "zeros"
           /\ syn.ended = "diverged"
           /\ Len(syn.warned) >= 1
           /\ LastWarning = "unable"
           /\ syn.p = ZeroPoles(syn.order)
    /\ (syn.pc = "zeros" /\ syn.ended = "converged")
        => (Abs(syn.f) < ftol \/ Abs(syn.delta_x) < ftol)

(* A bandpass sub-iteration ended because x passed 1e6. *)
C17_Witness ==
    /\ syn.pc = "zeros"
    /\ syn.f0 # 0
    /\ syn.ended = "diverged"
    /\ syn.x > XDivergence
    /\ syn.cand # ZeroPoles(syn.order)
    /\ syn.p = ZeroPoles(syn.order)

(* C18 as stated: when a sub-iteration hits the cap of 100 steps without   *)
(* having converged, a warning is emitted and the poles it leaves are all  *)
(* zero.                                                                   *)
C18_IterationCapFallsBack ==
    (syn.pc = "zeros" /\ syn.ended = "limit")
    => /\ Len(syn.warned) >= 1
       /\ LastWarning \in {"unable", "limit"}
       /\ syn.p = ZeroPoles(syn.order)

(* C18 amended: when a sub-iteration hits the cap of 100 steps without     *)
(* having converged or diverged, the warning 'Iteration limit exceeded' is *)
(* emitted and the poles it leaves are those of the last candidate,        *)
(* reflected; they are not replaced by zeros.                              *)
C18_IterationCapKeepsLastPoles ==
    (syn.pc = "zeros" /\ syn.ended = "limit")
    => /\ syn.itn = Hinf_itn_limit
       /\ ~(Abs(syn.f) < ftol \/ Abs(syn.delta_x) < ftol)
       /\ syn.x <= XDivergence
       /\ Len(syn.warned) >= 1
       /\ LastWarning = "limit"
       /\ Len(syn.p) = Len(syn.cand)
       /\ \A i \in 1..Len(syn.p) :
             /\ syn.p[i] \in {syn.cand[i], <<syn.cand[i][2], syn.cand[i][1]>>}
             /\ syn.p[i] # <<0, 1>>

(* A bandpass sub-iteration ran into the cap. *)
C18_Witness ==
    /\ syn.pc = "zeros"
    /\ syn.f0 # 0
    /\ syn.ended = "limit"
    /\ syn.itn = Hinf_itn_limit
    /\ syn.cand[1] = <<3, 1>>

(* C19: every pole set of a call, the candidates after reflection and the  *)
(* set returned, holds only poles of magnitude at most 1: it is all zeros  *)
(* (the initial and the fallback sets) or the last candidate with each     *)
(* pole of magnitude above 1 replaced by its inverse and the others kept.  *)
C19_PolesInsideUnitCircle ==
    syn.pc \in {"outer", "for", "zeros", "done"}
    => /\ \A i \in 1..Len(syn.p) : syn.p[i][1] <= syn.p[i][2]
       /\ \/ syn.p = ZeroPoles(syn.order)
          \/ /\ Len(syn.p) = Len(syn.cand)
             /\ \A i \in 1..Len(syn.p) :
                   syn.p[i] = IF syn.cand[i][1] > syn.cand[i][2]
                              THEN <<syn.cand[i][2], syn.cand[i][1]>>
                              ELSE syn.cand[i]

(* A call has returned the reflection of a candidate set whose first pole  *)
(* lay outside the unit circle.                                            *)
C19_Witness ==
    /\ syn.pc = "done"
    /\ Len(syn.cand) >= 2
    /\ syn.cand[1] = <<3, 1>>
    /\ syn.p[1] = <<1, 3>>
    /\ syn.p[2] = <<1, 2>>

(* C20: x is positive at the start of every step of a sub-iteration; each  *)
(* pass starts from the guess 0.3^(order-1) (lowpass) or 0.3^(order//2-1)  *)
(* (bandpass); the first step has delta_x = -f/100, a later one            *)
(* delta_x = -f*delta_x_prev/(f - f_prev); x becomes x + delta_x when that *)
(* is positive and x*0.1 otherwise.                                        *)
C20_ShapeParameterStaysPositive ==
    /\ [](syn.pc = "for" => syn.x > 0)
    /\ [][/\ syn.pc = "for"
             => /\ IF syn.itn = 1
                   THEN syn'.delta_x * 100 = -syn'.f
                   ELSE syn'.delta_x * (syn'.f - syn.fprev) = (-syn'.f) * syn.delta_x
                /\ syn'.x = IF syn.x + syn'.delta_x > 0
                            THEN syn.x + syn'.delta_x
                            ELSE syn.x \div 10
                /\ syn'.x > 0
          /\ (syn.pc = "outer" /\ syn'.pc = "for")
             => /\ syn'.itn = 1
                /\ syn'.x = InitialGuess(IF syn.f0 = 0 THEN syn.order - 1
                                         ELSE (syn.order \div 2) - 1)]_vars

(* In a second pass, with the x of the first pass elsewhere, the first     *)
(* step has thrown x + delta_x to 0 and x has been multiplied by 0.1.      *)
C20_Witness ==
    /\ syn.pc = "for"
    /\ syn.passes = 2
    /\ syn.resp = "overshoots"
    /\ syn.itn = 2
    /\ syn.delta_x = -syn.guess
    /\ syn.x * 10 = syn.guess

====
